---- MODULE Spec2Model ----
(***************************************************************************)
(* Model of the Goose Hacknight registration gateway (server.js, latest    *)
(* revision: src/unnamed/part_001 lines 1-393).                            *)
(*                                                                         *)
(* State: the config file on disk, the ADMIN_SECRET_TOKEN environment      *)
(* variable, the key list held by the upstream key service, and one record *)
(* per HTTP request holding the handler's local variables, its position    *)
(* (pc), the upstream calls it has had answered (log) and the responses it *)
(* has sent (res).  Every await of a fetch is one step: the upstream       *)
(* serves the call and the handler runs on to its next await.  A call may  *)
(* fail (response.ok false) at any time.  A listing without                *)
(* include_disabled=true shows the enabled keys only; created keys are     *)
(* listed last.  The label and limit fields of the creation body, which no *)
(* handler reads back, are left out.                                       *)
(***************************************************************************)
EXTENDS Integers, Sequences, FiniteSets, TLC

\* ------------------------------------------------------------------ bounds
\* Requests accepted in one behaviour.
MaxReqs == 2

\* ------------------------------------------------------- program constants
\* Page length the pagination loops compare against and step the offset by.
PageSize == 100

\* ------------------------------------------------------------ option values
\* JavaScript's undefined is None; a present value v is Some(v).
None == <<>>
Some(v) == <<v>>

\* --------------------------------------------------------------- input sets
Emails == {"a@x.io", "A@x.io"}
FillerEmail == "filler@x.io"
\* req.body.email: absent, the empty string, or an address.
EmailInputs == {None, Some("")} \cup {Some(e) : e \in Emails}
\* The x-admin-token header: absent, the secret, or another value.
TokenInputs == {None, Some("s3cret"), Some("wrong")}
\* process.env.ADMIN_SECRET_TOKEN: unset or set.
SecretInputs == {None, Some("s3cret")}

\* ------------------------------------------------------------- config store
\* JSON.stringify({registrationEnabled: false}, null, 2), what loadConfig writes.
DefaultConfigText == "{\n  \"registrationEnabled\": false\n}"
\* What the two workflows write into config.json.
WorkflowEnabledText == "{ \"registrationEnabled\": true }"
WorkflowDisabledText == "{ \"registrationEnabled\": false }"
\* A file that JSON.parse rejects.
CorruptText == "{ registrationEnabled: "

\* JSON.parse: Some(config), or None when it throws.
JSONParse(text) ==
  CASE text = DefaultConfigText -> Some([registrationEnabled |-> FALSE])
    [] text = WorkflowDisabledText -> Some([registrationEnabled |-> FALSE])
    [] text = WorkflowEnabledText -> Some([registrationEnabled |-> TRUE])
    [] OTHER -> None

\* A mutant: the missing file is reported as disabled but never created.
loadConfigNoWrite(file) ==
  IF file = None
    THEN [config |-> [registrationEnabled |-> FALSE], file |-> file, wrote |-> FALSE]
    ELSE IF JSONParse(file[1]) = None
      THEN [config |-> [registrationEnabled |-> FALSE], file |-> file, wrote |-> FALSE]
      ELSE [config |-> JSONParse(file[1])[1], file |-> file, wrote |-> FALSE]

\* loadConfig(): the config returned, the file afterwards, and whether
\* writeFileSync ran.
loadConfig(file) ==
  IF file = None
    THEN [config |-> [registrationEnabled |-> FALSE],
          file |-> Some(DefaultConfigText), wrote |-> TRUE]
    ELSE IF JSONParse(file[1]) = None
      THEN [config |-> [registrationEnabled |-> FALSE], file |-> file, wrote |-> FALSE]
      ELSE [config |-> JSONParse(file[1])[1], file |-> file, wrote |-> FALSE]

\* ------------------------------------------------------------- admin guard
\* adminAuth: TRUE when next() is called, FALSE when it answers 401.
\* (adminToken !== process.env.ADMIN_SECRET_TOKEN, undefined on either side.)
adminAuth(token, secret) == ~(token # secret)

\* ------------------------------------------------------------ upstream keys
\* The key name both the duplicate check and the creation call derive.
NameFor(email) == "Goose Hacknight - " \o email

\* A mutant: the creation call labels the key instead of naming it.
CreateNameLabel(email) == "Goose Hacknight"

\* name: `Goose Hacknight - ${email}` in the creation call's body.
CreateName(email) == NameFor(email)

Min(a, b) == IF a < b THEN a ELSE b

\* The keys a listing shows: all of them with include_disabled=true, the
\* enabled ones without.
Visible(keys, includeDisabled) ==
  IF includeDisabled THEN keys ELSE SelectSeq(keys, LAMBDA k : ~k.disabled)

\* GET /api/v1/keys?offset=: the upstream's page of at most PageSize keys.
UpstreamPage(keys, includeDisabled, offset) ==
  LET v == Visible(keys, includeDisabled)
  IN SubSeq(v, offset + 1, Min(offset + PageSize, Len(v)))

Hashes(keys) == {keys[j].hash : j \in 1..Len(keys)}
HasHash(keys, h) == \E j \in 1..Len(keys) : keys[j].hash = h
\* allKeys.some(key => key.name === expectedName)
SomeNamed(keys, name) == \E j \in 1..Len(keys) : keys[j].name = name
CountNamed(keys, name) == Cardinality({j \in 1..Len(keys) : keys[j].name = name})

\* DELETE /api/v1/keys/:hash served.
UpstreamDelete(keys, h) == SelectSeq(keys, LAMBDA k : k.hash # h)
\* PATCH /api/v1/keys/:hash {disabled: true} served.
UpstreamDisable(keys, h) ==
  [j \in 1..Len(keys) |->
     IF keys[j].hash = h THEN [keys[j] EXCEPT !.disabled = TRUE] ELSE keys[j]]
\* POST /api/v1/keys served: the key the upstream makes.
NewKey(h, name) == [hash |-> h, name |-> name, disabled |-> FALSE]

\* --------------------------------------------------------- pagination loop
\* A mutant: a page of exactly PageSize keys ends the loop.
HasMoreOffByOne(keys) == ~(Len(keys) <= PageSize)

\* if (keys.length < 100) hasMore = false
HasMore(keys) == ~(Len(keys) < PageSize)

\* offset += 100
NextOffset(offset) == offset + PageSize

\* One round of the while loop after a page arrived: allKeys grows, and the
\* loop either goes on at the next offset or ends.
PageRound(r, keys) ==
  IF HasMore(keys)
    THEN [r EXCEPT !.allKeys = r.allKeys \o keys, !.offset = NextOffset(r.offset)]
    ELSE [r EXCEPT !.allKeys = r.allKeys \o keys, !.hasMore = FALSE]

\* ------------------------------------------------------------------- state
VARIABLES
  configFile,   \* config.json: None when missing, else Some(text)
  fsWrites,     \* writeFileSync calls made by loadConfig
  adminSecret,  \* process.env.ADMIN_SECRET_TOKEN
  upstream,     \* the upstream's keys, in listing order
  nextHash,     \* the hash the upstream gives its next key
  reqs          \* the requests accepted so far, in order

vars == <<configFile, fsWrites, adminSecret, upstream, nextHash, reqs>>

\* A request as accepted, before its handler ran.  answered holds the
\* requests that had their response when this one arrived.
NewReq(route, token, email) ==
  [route |-> route, token |-> token, email |-> email, pc |-> "start",
   answered |-> {j \in 1..Len(reqs) : reqs[j].res # <<>>},
   config |-> None, offset |-> 0, hasMore |-> TRUE, allKeys |-> <<>>,
   keys |-> <<>>, pending |-> {}, log |-> <<>>, res |-> <<>>]

\* res.status(s).json(body) / res.json(body)
Send(r, status, body) ==
  [r EXCEPT !.res = Append(r.res, [status |-> status, body |-> body])]

\* The handler has nothing left to run.
Finish(r) == [r EXCEPT !.pc = "done"]

\* An upstream call answered: what was asked and what came back.  held is the
\* number of upstream keys (disabled ones included) that bore the name of the
\* request's email when the call was served.
ListCall(incl, offset, ok, page, held) ==
  [op |-> "list", ok |-> ok, incl |-> incl, offset |-> offset, name |-> "",
   hash |-> 0, page |-> page, held |-> held]
CreateCall(name, ok, page, held) ==
  [op |-> "create", ok |-> ok, incl |-> FALSE, offset |-> 0, name |-> name,
   hash |-> 0, page |-> page, held |-> held]
KeyCall(op, h, ok) ==
  [op |-> op, ok |-> ok, incl |-> FALSE, offset |-> 0, name |-> "",
   hash |-> h, page |-> <<>>, held |-> 0]
Logged(r, call) == [r EXCEPT !.log = Append(r.log, call)]

\* The calls of one kind a request has had answered, in order.
Calls(r, op) == SelectSeq(r.log, LAMBDA c : c.op = op)

\* ------------------------------------------------------ POST /api/invite
\* A mutant: the flag is never found closed.
RegistrationClosedNever(config) == FALSE

\* if (!config.registrationEnabled)
RegistrationClosed(config) == ~config.registrationEnabled

\* if (!email): undefined and the empty string are falsy.
EmailMissing(email) == email = None \/ email = Some("")

\* The handler up to its first await: the flag, then the body.
InviteEntry(r, config) ==
  IF RegistrationClosed(config)
    THEN Finish(Send(r, 403, [success |-> FALSE,
                              message |-> "Registration is currently closed"]))
    ELSE IF EmailMissing(r.email)
      THEN Finish(Send(r, 400, [success |-> FALSE, message |-> "Email is required"]))
      ELSE [r EXCEPT !.pc = "check"]

\* The handler's catch block.
InviteFailed(r, error) ==
  Finish(Send(r, 500, [success |-> FALSE, message |-> "Failed to create API key",
                       error |-> error]))

\* A mutant: a failed page ends the duplicate check as "not registered".
CheckAnsweredSwallow(r, ok, page, held) ==
  LET l == Logged(r, ListCall(FALSE, r.offset, ok, page, held))
      n == PageRound(l, page)
  IN IF ok /\ n.hasMore
       THEN n
       ELSE IF ok /\ SomeNamed(n.allKeys, NameFor(r.email[1]))
         THEN Finish(Send(n, 400, [success |-> FALSE,
                message |-> "This email has already been registered for the hackathon."]))
         ELSE [n EXCEPT !.pc = "create"]

\* A page of checkExistingEmail answered, and the handler's run to its next
\* await: the next page, the 400, the creation call, or the catch block.
CheckAnswered(r, ok, page, held) ==
  LET l == Logged(r, ListCall(FALSE, r.offset, ok, page, held))
      n == PageRound(l, page)
  IN IF ~ok
       THEN InviteFailed(l, "Failed to fetch keys")
       ELSE IF n.hasMore
         THEN n
         ELSE IF SomeNamed(n.allKeys, NameFor(r.email[1]))
           THEN Finish(Send(n, 400, [success |-> FALSE,
                  message |-> "This email has already been registered for the hackathon."]))
           ELSE [n EXCEPT !.pc = "create"]

\* A mutant: the creation is refused when the name is taken by then.
CreateAnsweredRecheck(r, ok, key, held) ==
  LET l == Logged(r, CreateCall(key.name, ok, IF ok THEN <<key>> ELSE <<>>, held))
  IN IF ~ok
       THEN InviteFailed(l, "Failed to create OpenRouter API key")
       ELSE IF held > 0
         THEN Finish(Send(l, 400, [success |-> FALSE,
                message |-> "This email has already been registered for the hackathon."]))
         ELSE Finish(Send(l, 200, [success |-> TRUE, apiKey |-> Some(key.hash),
                                   keyHash |-> key.hash, name |-> key.name,
                                   disabled |-> key.disabled]))

\* The creation call answered: the 200 with the upstream's data, or the catch
\* block.  data.key, the secret, is Some(hash).
CreateAnswered(r, ok, key, held) ==
  LET l == Logged(r, CreateCall(key.name, ok, IF ok THEN <<key>> ELSE <<>>, held))
  IN IF ~ok
       THEN InviteFailed(l, "Failed to create OpenRouter API key")
       ELSE Finish(Send(l, 200, [success |-> TRUE, apiKey |-> Some(key.hash),
                                 keyHash |-> key.hash, name |-> key.name,
                                 disabled |-> key.disabled]))

\* ---------------------------------------------------------- admin routes
Unauthorized(r) ==
  Finish(Send(r, 401, [success |-> FALSE, message |-> "Unauthorized access"]))

\* The middleware in front of an admin route: 401, or the handler's first
\* listKeys call.
AdminEntry(r, secret) ==
  IF adminAuth(r.token, secret) THEN [r EXCEPT !.pc = "list"] ELSE Unauthorized(r)

FailMessage(route) ==
  CASE route = "list" -> "Failed to list keys"
    [] route = "delete-all" -> "Failed to delete keys"
    [] OTHER -> "Failed to disable keys"

\* The catch block of an admin handler.
AdminFailed(r, error) ==
  Send(r, 500, [success |-> FALSE, message |-> FailMessage(r.route), error |-> error])

\* delete-all after its listing: keys.map(key => deleteKey(key.hash)) issues
\* every delete call; Promise.all of no promises resolves at once.
DeleteFanOut(r) ==
  LET k == r.allKeys
  IN IF k = <<>>
       THEN Finish(Send([r EXCEPT !.keys = k], 200,
                        [success |-> TRUE, count |-> Len(k)]))
       ELSE [r EXCEPT !.keys = k, !.pending = Hashes(k), !.pc = "fanout"]

\* The second listKeys call of disable-all.
Relist(r) == [r EXCEPT !.pc = "relist", !.offset = 0, !.hasMore = TRUE, !.allKeys = <<>>]

\* disable-all after its listing: every disable call is issued.
DisableFanOut(r) ==
  LET k == r.allKeys
  IN IF k = <<>>
       THEN Relist([r EXCEPT !.keys = k])
       ELSE [r EXCEPT !.keys = k, !.pending = Hashes(k), !.pc = "fanout"]

\* listKeys returned to its caller.
ListDone(r) ==
  CASE r.route = "list" -> Finish(Send(r, 200, [data |-> r.allKeys]))
    [] r.route = "delete-all" -> DeleteFanOut(r)
    [] r.route = "disable-all" /\ r.pc = "list" -> DisableFanOut(r)
    [] OTHER -> Finish(Send(r, 200, [success |-> TRUE, count |-> Len(r.keys),
                                     data |-> r.allKeys]))

\* A page of listKeys answered, and the handler's run to its next await.
ListAnswered(r, ok, page) ==
  LET l == Logged(r, ListCall(TRUE, r.offset, ok, page, 0))
      n == PageRound(l, page)
  IN IF ~ok
       THEN Finish(AdminFailed(l, "Failed to list keys"))
       ELSE IF n.hasMore THEN n ELSE ListDone(n)

\* A mutant: a failed delete is tolerated like a failed disable.
DeleteSettledTolerant(r, h, ok) ==
  LET l == [Logged(r, KeyCall("delete", h, ok)) EXCEPT !.pending = r.pending \ {h}]
  IN IF l.pending = {}
       THEN Finish(Send(l, 200, [success |-> TRUE, count |-> Len(l.keys)]))
       ELSE l

\* A mutant: the deletes run one after the other and the first failure
\* leaves the rest unissued.
DeleteSettledSequential(r, h, ok) ==
  LET l == [Logged(r, KeyCall("delete", h, ok)) EXCEPT !.pending = r.pending \ {h}]
  IN IF ~ok
       THEN Finish(AdminFailed([l EXCEPT !.pending = {}], "Failed to delete key"))
       ELSE IF l.pending = {}
         THEN Finish(Send(l, 200, [success |-> TRUE, count |-> Len(l.keys)]))
         ELSE l

\* A mutant: every failed delete reaches the catch block and answers.
DeleteSettledRespondEach(r, h, ok) ==
  LET l == [Logged(r, KeyCall("delete", h, ok)) EXCEPT !.pending = r.pending \ {h}]
      d == IF l.pending = {} THEN Finish(l) ELSE l
  IN IF ~ok
       THEN AdminFailed(d, "Failed to delete key")
       ELSE IF l.pending = {} /\ r.res = <<>>
         THEN Send(d, 200, [success |-> TRUE, count |-> Len(l.keys)])
         ELSE d

\* One delete call of the fan-out answered.  Promise.all rejects on the first
\* failure and the catch block answers 500 while the other calls are still
\* out; it resolves when the last call succeeded and none failed.
DeleteSettled(r, h, ok) ==
  LET l == [Logged(r, KeyCall("delete", h, ok)) EXCEPT !.pending = r.pending \ {h}]
      d == IF l.pending = {} THEN Finish(l) ELSE l
  IN IF r.res # <<>>
       THEN d
       ELSE IF ~ok
         THEN AdminFailed(d, "Failed to delete key")
         ELSE IF l.pending = {}
           THEN Send(d, 200, [success |-> TRUE, count |-> Len(l.keys)])
           ELSE d

\* A mutant: a failed disable rejects the batch as a failed delete does.
DisableSettledAbort(r, h, ok) ==
  LET l == [Logged(r, KeyCall("disable", h, ok)) EXCEPT !.pending = r.pending \ {h}]
  IN IF ~ok
       THEN Finish(AdminFailed([l EXCEPT !.pending = {}], "Failed to disable key"))
       ELSE IF l.pending = {} THEN Relist(l) ELSE l

\* One disable call of the fan-out answered; its failure is caught per key.
\* When the last one has settled the handler lists the keys again.
DisableSettled(r, h, ok) ==
  LET l == [Logged(r, KeyCall("disable", h, ok)) EXCEPT !.pending = r.pending \ {h}]
  IN IF l.pending = {} THEN Relist(l) ELSE l

\* ----------------------------------------------------------------- initial
Key(h, email, disabled) == [hash |-> h, name |-> NameFor(email), disabled |-> disabled]

\* The upstream's keys when the server starts: none, one key of an address
\* (enabled or disabled), or that key behind another one.
SmallUpstreams ==
  { <<>>,
    <<Key(1, "a@x.io", FALSE)>>,
    <<Key(1, "a@x.io", TRUE)>>,
    <<Key(1, FillerEmail, FALSE), Key(2, "a@x.io", FALSE)>> }

\* config.json when the server starts: missing, unparseable, or as a workflow
\* left it.
InitialConfigFiles ==
  {None, Some(CorruptText), Some(WorkflowEnabledText), Some(WorkflowDisabledText)}

Init ==
  /\ configFile \in InitialConfigFiles
  /\ fsWrites = 0
  /\ adminSecret \in SecretInputs
  /\ upstream \in SmallUpstreams
  /\ nextHash = Len(upstream) + 1
  /\ reqs = <<>>

\* ----------------------------------------------------------------- actions
\* GET /api/registration-status: loadConfig and the answer, in one run.
RegistrationStatus ==
  /\ Len(reqs) < MaxReqs
  /\ LET l == loadConfig(configFile)
         r == [NewReq("status", None, None) EXCEPT !.config = Some(l.config)]
     IN /\ configFile' = l.file
        /\ fsWrites' = fsWrites + (IF l.wrote THEN 1 ELSE 0)
        /\ reqs' = Append(reqs, Finish(Send(r, 200,
                     [registrationEnabled |-> l.config.registrationEnabled])))
  /\ UNCHANGED <<adminSecret, upstream, nextHash>>

\* POST /api/invite arrives: loadConfig, the flag and the body are handled
\* before the first await.
Invite ==
  /\ Len(reqs) < MaxReqs
  /\ \E email \in EmailInputs :
       LET l == loadConfig(configFile)
           r == [NewReq("invite", None, email) EXCEPT !.config = Some(l.config)]
       IN /\ configFile' = l.file
          /\ fsWrites' = fsWrites + (IF l.wrote THEN 1 ELSE 0)
          /\ reqs' = Append(reqs, InviteEntry(r, l.config))
  /\ UNCHANGED <<adminSecret, upstream, nextHash>>

\* The upstream answers one page request of checkExistingEmail.
CheckPage ==
  \E i \in 1..Len(reqs) : \E ok \in BOOLEAN :
    /\ reqs[i].pc = "check"
    /\ LET page == IF ok THEN UpstreamPage(upstream, FALSE, reqs[i].offset) ELSE <<>>
           held == CountNamed(upstream, NameFor(reqs[i].email[1]))
       IN reqs' = [reqs EXCEPT ![i] = CheckAnswered(reqs[i], ok, page, held)]
    /\ UNCHANGED <<configFile, fsWrites, adminSecret, upstream, nextHash>>

\* The upstream answers the creation call of createOpenRouterKey.
CreateKey ==
  \E i \in 1..Len(reqs) : \E ok \in BOOLEAN :
    /\ reqs[i].pc = "create"
    /\ LET key == NewKey(nextHash, CreateName(reqs[i].email[1]))
           held == CountNamed(upstream, NameFor(reqs[i].email[1]))
       IN /\ reqs' = [reqs EXCEPT ![i] = CreateAnswered(reqs[i], ok, key, held)]
          /\ upstream' = IF ok THEN Append(upstream, key) ELSE upstream
          /\ nextHash' = IF ok THEN nextHash + 1 ELSE nextHash
    /\ UNCHANGED <<configFile, fsWrites, adminSecret>>

\* GET /api/admin/keys arrives.
AdminKeys ==
  /\ Len(reqs) < MaxReqs
  /\ \E token \in TokenInputs :
       reqs' = Append(reqs, AdminEntry(NewReq("list", token, None), adminSecret))
  /\ UNCHANGED <<configFile, fsWrites, adminSecret, upstream, nextHash>>

\* POST /api/admin/keys/delete-all arrives.
DeleteAll ==
  /\ Len(reqs) < MaxReqs
  /\ \E token \in TokenInputs :
       reqs' = Append(reqs, AdminEntry(NewReq("delete-all", token, None), adminSecret))
  /\ UNCHANGED <<configFile, fsWrites, adminSecret, upstream, nextHash>>

\* POST /api/admin/keys/disable-all arrives.
DisableAll ==
  /\ Len(reqs) < MaxReqs
  /\ \E token \in TokenInputs :
       reqs' = Append(reqs, AdminEntry(NewReq("disable-all", token, None), adminSecret))
  /\ UNCHANGED <<configFile, fsWrites, adminSecret, upstream, nextHash>>

\* The upstream answers one page request of listKeys.
ListPage ==
  \E i \in 1..Len(reqs) : \E ok \in BOOLEAN :
    /\ reqs[i].pc \in {"list", "relist"}
    /\ LET page == IF ok THEN UpstreamPage(upstream, TRUE, reqs[i].offset) ELSE <<>>
       IN reqs' = [reqs EXCEPT ![i] = ListAnswered(reqs[i], ok, page)]
    /\ UNCHANGED <<configFile, fsWrites, adminSecret, upstream, nextHash>>

\* The upstream answers one delete call of delete-all's fan-out; it can only
\* succeed on a key it still holds.
DeleteKey ==
  \E i \in 1..Len(reqs) : \E h \in reqs[i].pending :
    \E ok \in (IF HasHash(upstream, h) THEN BOOLEAN ELSE {FALSE}) :
      /\ reqs[i].route = "delete-all"
      /\ reqs' = [reqs EXCEPT ![i] = DeleteSettled(reqs[i], h, ok)]
      /\ upstream' = IF ok THEN UpstreamDelete(upstream, h) ELSE upstream
      /\ UNCHANGED <<configFile, fsWrites, adminSecret, nextHash>>

\* The upstream answers one disable call of disable-all's fan-out.
DisableKey ==
  \E i \in 1..Len(reqs) : \E h \in reqs[i].pending :
    \E ok \in (IF HasHash(upstream, h) THEN BOOLEAN ELSE {FALSE}) :
      /\ reqs[i].route = "disable-all"
      /\ reqs' = [reqs EXCEPT ![i] = DisableSettled(reqs[i], h, ok)]
      /\ upstream' = IF ok THEN UpstreamDisable(upstream, h) ELSE upstream
      /\ UNCHANGED <<configFile, fsWrites, adminSecret, nextHash>>

\* The "Enable Registration" workflow rewrites config.json.
EnableRegistration ==
  /\ configFile # Some(WorkflowEnabledText)
  /\ configFile' = Some(WorkflowEnabledText)
  /\ UNCHANGED <<fsWrites, adminSecret, upstream, nextHash, reqs>>

\* The "Disable Registration" workflow rewrites config.json.
DisableRegistration ==
  /\ configFile # Some(WorkflowDisabledText)
  /\ configFile' = Some(WorkflowDisabledText)
  /\ UNCHANGED <<fsWrites, adminSecret, upstream, nextHash, reqs>>

Next ==
  \/ RegistrationStatus
  \/ Invite
  \/ CheckPage
  \/ CreateKey
  \/ AdminKeys
  \/ DeleteAll
  \/ DisableAll
  \/ ListPage
  \/ DeleteKey
  \/ DisableKey
  \/ EnableRegistration
  \/ DisableRegistration

Spec == Init /\ [][Next]_vars

\* Every upstream call that is out is answered in the end, and the handler
\* then runs on: the event loop leaves no settled fetch unhandled.
Fairness ==
  /\ WF_vars(CheckPage)
  /\ WF_vars(CreateKey)
  /\ WF_vars(ListPage)
  /\ WF_vars(DeleteKey)
  /\ WF_vars(DisableKey)

SpecLive == Init /\ [][Next]_vars /\ Fairness

\* ------------------------------------------------ listings of several pages
\* An upstream of n keys whose key number `at` (none when at = 0) belongs to
\* a@x.io, disabled or not; the other keys belong to another address.
PagedUpstream(n, at, disabled) ==
  [j \in 1..n |-> Key(j, IF j = at THEN "a@x.io" ELSE FillerEmail, j = at /\ disabled)]

\* Listing lengths around the page length: short, full, and several pages.
ListingSizes == {0, 37, 99, 100, 101, 200, 237}

LargeUpstreams ==
  { PagedUpstream(n, at, d) :
      n \in ListingSizes, at \in {0, 1, 100, 101, 200, 201, 237}, d \in BOOLEAN }

InitPages ==
  /\ configFile = Some(WorkflowEnabledText)
  /\ fsWrites = 0
  /\ adminSecret = Some("s3cret")
  /\ upstream \in LargeUpstreams
  /\ nextHash = Len(upstream) + 1
  /\ reqs = <<>>

\* The requests that list keys page by page, without the bulk operations.
NextPages ==
  \/ Invite
  \/ CheckPage
  \/ CreateKey
  \/ AdminKeys
  \/ ListPage

SpecPages == InitPages /\ [][NextPages]_vars

\* ------------------------------------------------------------------ claims
AllOk(calls) == \A j \in 1..Len(calls) : calls[j].ok

RECURSIVE ConcatPages(_)
ConcatPages(calls) ==
  IF calls = <<>> THEN <<>> ELSE calls[1].page \o ConcatPages(Tail(calls))

IsInvite(r) == r.route = "invite"
IsAdmin(r) == r.route \in {"list", "delete-all", "disable-all"}
HasEmail(r) == r.email # None /\ r.email # Some("")

\* C1: an invite request that loaded a config with registrationEnabled = false
\* (from the file or defaulted) has answered 403, once, whatever its body
\* held, and has had no upstream call at all.
C1_ClosedRegistrationRefuses ==
  \A i \in 1..Len(reqs) :
    (IsInvite(reqs[i]) /\ ~reqs[i].config[1].registrationEnabled)
      => /\ reqs[i].pc = "done"
         /\ Len(reqs[i].res) = 1
         /\ reqs[i].res[1].status = 403
         /\ reqs[i].log = <<>>

\* An invite with an address was refused under a config defaulted from an
\* unparseable file, while the upstream held no key for that address.
C1_Witness ==
  \E i \in 1..Len(reqs) :
    /\ IsInvite(reqs[i]) /\ reqs[i].email = Some("a@x.io")
    /\ configFile = Some(CorruptText)
    /\ upstream = <<>>
    /\ reqs[i].res # <<>> /\ reqs[i].res[1].status = 403

\* C2 (as claimed): an invite whose duplicate check has ended, every page
\* request of it answered successfully at a moment when the upstream held a
\* key named "Goose Hacknight - " + e, has answered 400 and has no creation
\* call out or answered.
C2_ExistingKeyRefused ==
  \A i \in 1..Len(reqs) :
    LET r == reqs[i]
        checks == Calls(r, "list")
    IN (/\ IsInvite(r) /\ r.pc \in {"create", "done"}
        /\ checks # <<>> /\ AllOk(checks)
        /\ \A j \in 1..Len(checks) : checks[j].held > 0)
         => /\ r.pc = "done"
            /\ Len(r.res) = 1 /\ r.res[1].status = 400
            /\ Calls(r, "create") = <<>>

\* C3: an invite with a non-empty address e under open registration, all of
\* whose upstream calls succeeded and whose duplicate check never ran while a
\* key named for e existed, has had exactly one creation call answered, named
\* "Goose Hacknight - " + e, and has answered 200 with success = true, a
\* non-empty apiKey and that name.
C3_UnusedEmailGetsKey ==
  \A i \in 1..Len(reqs) :
    LET r == reqs[i]
        checks == Calls(r, "list")
        creates == Calls(r, "create")
    IN (/\ IsInvite(r) /\ HasEmail(r) /\ r.pc = "done"
        /\ r.config[1].registrationEnabled
        /\ AllOk(r.log)
        /\ \A j \in 1..Len(checks) : checks[j].held = 0)
         => /\ Len(creates) = 1
            /\ creates[1].name = "Goose Hacknight - " \o r.email[1]
            /\ Len(r.res) = 1
            /\ r.res[1].status = 200
            /\ r.res[1].body.success = TRUE
            /\ r.res[1].body.apiKey # None
            /\ r.res[1].body.name = "Goose Hacknight - " \o r.email[1]

\* An invite for a@x.io was answered 200 and the upstream now holds its key.
C3_Witness ==
  \E i \in 1..Len(reqs) :
    /\ IsInvite(reqs[i]) /\ reqs[i].email = Some("a@x.io")
    /\ reqs[i].res # <<>> /\ reqs[i].res[1].status = 200
    /\ AllOk(reqs[i].log)
    /\ \A j \in 1..Len(reqs[i].log) : reqs[i].log[j].held = 0
    /\ CountNamed(upstream, "Goose Hacknight - a@x.io") = 1

\* C4 (as claimed): an admin request without the correct x-admin-token (no
\* header, or a header that differs from the configured secret, the secret
\* being set or not) has answered 401 and has had no upstream call.
C4_BadTokenRefused ==
  \A i \in 1..Len(reqs) :
    LET r == reqs[i]
    IN (IsAdmin(r) /\ (r.token = None \/ r.token # adminSecret))
         => /\ Len(r.res) = 1 /\ r.res[1].status = 401
            /\ r.log = <<>>

\* C5: the page requests of one listing (listKeys of GET /api/admin/keys,
\* checkExistingEmail of POST /api/invite) carry the offsets 0, 100, 200, ...
\* in that order; every page before the last answered one was full; the
\* listing ends with the first page of fewer than 100 keys and yields the
\* pages concatenated in order; page lengths 100, 100, 37 make 3 requests and
\* 237 keys.
C5_Pagination ==
  \A i \in 1..Len(reqs) :
    LET r == reqs[i]
        L == Calls(r, "list")
        n == Len(L)
        paging == r.pc \in {"check", "list"}
    IN r.route \in {"invite", "list"} =>
         /\ \A j \in 1..n : L[j].offset = 100 * (j - 1)
         /\ \A j \in 1..(n - 1) : L[j].ok /\ Len(L[j].page) = 100
         /\ paging => /\ r.offset = 100 * n
                      /\ n > 0 => (L[n].ok /\ Len(L[n].page) = 100)
         /\ (~paging /\ n > 0 /\ L[n].ok) =>
              /\ Len(L[n].page) < 100
              /\ r.allKeys = ConcatPages(L)
              /\ r.route = "list" =>
                   (Len(r.res) = 1 /\ r.res[1].status = 200
                    /\ r.res[1].body.data = ConcatPages(L))
         /\ (n = 3 /\ Len(L[1].page) = 100 /\ Len(L[2].page) = 100
             /\ L[3].ok /\ Len(L[3].page) = 37) =>
              (~paging /\ Len(r.allKeys) = 237)

\* GET /api/admin/keys over 237 keys: three page requests at 0, 100, 200 and
\* all 237 keys in the answer.
C5_Witness ==
  \E i \in 1..Len(reqs) :
    LET L == Calls(reqs[i], "list")
    IN /\ reqs[i].route = "list" /\ reqs[i].pc = "done"
       /\ Len(L) = 3 /\ AllOk(L)
       /\ L[1].offset = 0 /\ L[2].offset = 100 /\ L[3].offset = 200
       /\ Len(L[3].page) = 37
       /\ Len(reqs[i].res[1].body.data) = 237
       /\ reqs[i].res[1].body.data = upstream

\* The index of the last call of a kind in a log, 0 when there is none.
LastIndex(log, op) ==
  LET at == {j \in 1..Len(log) : log[j].op = op}
  IN IF at = {} THEN 0 ELSE CHOOSE j \in at : \A k \in at : k <= j

\* The page requests of disable-all's second listing: those answered after
\* the last disable call.
RelistCalls(r) ==
  SelectSeq(SubSeq(r.log, LastIndex(r.log, "disable") + 1, Len(r.log)),
            LAMBDA c : c.op = "list")

\* C6: in disable-all, once the fan-out has settled a disable call has been
\* answered for every listed key, failed ones included; a key whose disable
\* call succeeded is disabled wherever the upstream still holds it; and when
\* the listings succeeded the request answers 200 once, success = true, data
\* being the pages listed after the last disable call settled.
C6_DisableAllTolerant ==
  \A i \in 1..Len(reqs) :
    LET r == reqs[i]
        dis == Calls(r, "disable")
    IN (r.route = "disable-all" /\ r.keys # <<>>) =>
         /\ r.pc \in {"relist", "done"} =>
              /\ {dis[j].hash : j \in 1..Len(dis)} = Hashes(r.keys)
              /\ Len(dis) = Len(r.keys)
         /\ \A j \in 1..Len(dis) : dis[j].ok =>
              \A k \in 1..Len(upstream) :
                upstream[k].hash = dis[j].hash => upstream[k].disabled
         /\ (r.pc = "done" /\ AllOk(Calls(r, "list"))) =>
              /\ Len(r.res) = 1
              /\ r.res[1].status = 200
              /\ r.res[1].body.success = TRUE
              /\ r.res[1].body.data = ConcatPages(RelistCalls(r))
              /\ \A j \in 1..Len(dis) : dis[j].ok =>
                   \A k \in 1..Len(r.res[1].body.data) :
                     r.res[1].body.data[k].hash = dis[j].hash
                       => r.res[1].body.data[k].disabled

\* disable-all over two keys: one disable call failed, the other succeeded,
\* and the 200 lists the first key still enabled and the second disabled.
C6_Witness ==
  \E i \in 1..Len(reqs) :
    LET r == reqs[i]
        dis == Calls(r, "disable")
    IN /\ r.route = "disable-all" /\ r.pc = "done"
       /\ Len(dis) = 2
       /\ \E j \in 1..2 : ~dis[j].ok /\ dis[j].hash = 1
       /\ \E j \in 1..2 : dis[j].ok /\ dis[j].hash = 2
       /\ r.res[1].status = 200
       /\ Len(r.res[1].body.data) = 2
       /\ ~r.res[1].body.data[1].disabled
       /\ r.res[1].body.data[2].disabled

\* The request a step accepted, when it is one that loads the config.
Loads ==
  /\ Len(reqs') = Len(reqs) + 1
  /\ reqs'[Len(reqs')].route \in {"status", "invite"}

\* C7: a load (GET /api/registration-status, POST /api/invite) that finds no
\* config file returns registrationEnabled = false and writes the file with
\* {registrationEnabled: false}; a load that finds the file it wrote returns
\* registrationEnabled = false and writes nothing.
C7_MissingConfigDefaults ==
  [][Loads =>
       LET r == reqs'[Len(reqs')]
       IN /\ configFile = None =>
               /\ r.config = Some([registrationEnabled |-> FALSE])
               /\ configFile' # None
               /\ JSONParse(configFile'[1]) = Some([registrationEnabled |-> FALSE])
               /\ fsWrites' = fsWrites + 1
               /\ r.route = "status" =>
                    r.res = <<[status |-> 200,
                               body |-> [registrationEnabled |-> FALSE]]>>
          /\ (fsWrites > 0 /\ configFile = Some(DefaultConfigText)) =>
               /\ r.config = Some([registrationEnabled |-> FALSE])
               /\ configFile' = configFile
               /\ fsWrites' = fsWrites
               /\ r.route = "status" =>
                    r.res = <<[status |-> 200,
                               body |-> [registrationEnabled |-> FALSE]]>>
               /\ r.route = "invite" => r.res[1].status = 403]_vars

\* The file was missing, one load created it, and a later load read it back:
\* both answered registrationEnabled = false and the file was written once.
C7_Witness ==
  /\ Len(reqs) = 2
  /\ reqs[1].route = "status" /\ reqs[2].route = "status"
  /\ reqs[1].res[1].body.registrationEnabled = FALSE
  /\ reqs[2].res[1].body.registrationEnabled = FALSE
  /\ fsWrites = 1
  /\ configFile = Some(DefaultConfigText)

\* The two bodies the catch block of delete-all can send.
DeleteAllFailures ==
  { [success |-> FALSE, message |-> "Failed to delete keys", error |-> e] :
      e \in {"Failed to list keys", "Failed to delete key"} }

\* C8: delete-all answers at most once; a 200 means the listing and every
\* listed key's delete call succeeded and carries the number of listed keys;
\* after any failed call the answer is one 500 whose body names no key.
C8_DeleteAllAllOrNothing ==
  \A i \in 1..Len(reqs) :
    LET r == reqs[i]
        del == Calls(r, "delete")
    IN r.route = "delete-all" =>
         /\ Len(r.res) <= 1
         /\ (r.res # <<>> /\ r.res[1].status = 200) =>
              /\ AllOk(r.log)
              /\ r.pending = {}
              /\ {del[j].hash : j \in 1..Len(del)} = Hashes(r.keys)
              /\ r.res[1].body = [success |-> TRUE, count |-> Len(r.keys)]
         /\ ~AllOk(r.log) =>
              /\ Len(r.res) = 1
              /\ r.res[1].status = 500
              /\ r.res[1].body \in DeleteAllFailures
         /\ (r.pc = "done" /\ r.log # <<>>) => Len(r.res) = 1

\* delete-all over two keys: one delete succeeded, one failed, and the only
\* answer is the 500.
C8_Witness ==
  \E i \in 1..Len(reqs) :
    LET r == reqs[i]
        del == Calls(r, "delete")
    IN /\ r.route = "delete-all" /\ r.pc = "done"
       /\ Len(del) = 2
       /\ \E j \in 1..2 : del[j].ok
       /\ \E j \in 1..2 : ~del[j].ok
       /\ Len(r.res) = 1 /\ r.res[1].status = 500
       /\ Len(upstream) = 1

\* C9: nothing ties the creation to the duplicate check: an invite whose
\* creation call the upstream accepted answers 200 with the new key, also
\* when a key of that name had appeared upstream since its check; two invites
\* that both created a key hold two different keys.
C9_CheckThenCreateNotAtomic ==
  \A i \in 1..Len(reqs) :
    LET r == reqs[i]
        cr == Calls(r, "create")
    IN (IsInvite(r) /\ cr # <<>> /\ cr[1].ok) =>
         /\ Len(r.res) = 1
         /\ r.res[1].status = 200
         /\ r.res[1].body.keyHash = cr[1].page[1].hash
         /\ \A k \in 1..Len(reqs) :
              (k # i /\ IsInvite(reqs[k]) /\ reqs[k].res # <<>>
               /\ reqs[k].res[1].status = 200)
                => reqs[k].res[1].body.keyHash # r.res[1].body.keyHash

\* Two invites for a@x.io, no key of that name upstream during either check:
\* both answered 200 and the upstream holds two keys of that name.
C9_Witness ==
  /\ Len(reqs) = 2
  /\ \A i \in 1..2 :
       /\ IsInvite(reqs[i]) /\ reqs[i].email = Some("a@x.io")
       /\ reqs[i].res # <<>> /\ reqs[i].res[1].status = 200
       /\ \A j \in 1..Len(Calls(reqs[i], "list")) :
            Calls(reqs[i], "list")[j].held = 0
  /\ CountNamed(upstream, "Goose Hacknight - a@x.io") = 2

\* C10 (as claimed): when a disable-all that was answered before the invite
\* arrived has disabled a key named for e, and the upstream held a key of
\* that name at every page request of the invite's duplicate check, the
\* invite has answered 400 and made no creation call.
C10_DisabledKeyStillRegistered ==
  \A i \in 1..Len(reqs) :
    LET r == reqs[i]
        checks == Calls(r, "list")
    IN (/\ IsInvite(r) /\ r.pc \in {"create", "done"}
        /\ checks # <<>> /\ AllOk(checks)
        /\ \A j \in 1..Len(checks) : checks[j].held > 0
        /\ \E d \in r.answered : \E k \in 1..Len(upstream) :
             /\ reqs[d].route = "disable-all"
             /\ upstream[k].name = NameFor(r.email[1])
             /\ \E j \in 1..Len(reqs[d].log) :
                  /\ reqs[d].log[j].op = "disable" /\ reqs[d].log[j].ok
                  /\ reqs[d].log[j].hash = upstream[k].hash)
         => /\ Len(r.res) = 1 /\ r.res[1].status = 400
            /\ Calls(r, "create") = <<>>

\* Each invite had its response before the next invite was accepted.
InvitesDoNotOverlap ==
  \A i, k \in 1..Len(reqs) :
    (i < k /\ IsInvite(reqs[i]) /\ IsInvite(reqs[k])) => i \in reqs[k].answered

\* C11 (as claimed): while invites do not overlap, whatever invites,
\* disable-all and delete-all requests have run from an upstream with at most
\* one key per address, the upstream holds at most one key named
\* "Goose Hacknight - " + e for every address e.
C11_OneKeyPerEmail ==
  InvitesDoNotOverlap =>
    \A e \in Emails : CountNamed(upstream, "Goose Hacknight - " \o e) <= 1

\* C12: an invite (registration open, address given) one of whose upstream
\* calls failed has answered 500 once, success = false, the failure's message
\* in error and no apiKey; after a failed page of the duplicate check no
\* creation call is out or answered.
C12_InviteUpstreamFailure ==
  \A i \in 1..Len(reqs) :
    LET r == reqs[i]
        checks == Calls(r, "list")
        creates == Calls(r, "create")
    IN (IsInvite(r) /\ ~AllOk(r.log)) =>
         /\ r.pc = "done"
         /\ Len(r.res) = 1
         /\ r.res[1].status = 500
         /\ r.res[1].body.success = FALSE
         /\ "apiKey" \notin DOMAIN r.res[1].body
         /\ ~AllOk(checks) =>
              /\ creates = <<>>
              /\ r.res[1].body.error = "Failed to fetch keys"
         /\ ~AllOk(creates) =>
              /\ Len(creates) = 1
              /\ r.res[1].body.error = "Failed to create OpenRouter API key"

\* One invite failed in its duplicate check and another in its creation call:
\* both answered 500 and the upstream gained no key.
C12_Witness ==
  /\ Len(reqs) = 2
  /\ IsInvite(reqs[1]) /\ IsInvite(reqs[2])
  /\ ~AllOk(Calls(reqs[1], "list")) /\ reqs[1].res[1].status = 500
  /\ ~AllOk(Calls(reqs[2], "create")) /\ reqs[2].res[1].status = 500
  /\ upstream = <<>>

\* C13: delete-all has a delete call out or answered for every listed key
\* from the moment its listing ended, also after its 500; a key whose delete
\* call succeeded is gone from the upstream; once every call has settled, the
\* listed keys still upstream are ones whose delete call failed.
C13_DeleteAllFanOut ==
  \A i \in 1..Len(reqs) :
    LET r == reqs[i]
        del == Calls(r, "delete")
        answeredFor == {del[j].hash : j \in 1..Len(del)}
    IN (r.route = "delete-all" /\ r.keys # <<>>) =>
         /\ r.pending \cup answeredFor = Hashes(r.keys)
         /\ r.pending \cap answeredFor = {}
         /\ r.pc = "done" <=> r.pending = {}
         /\ \A j \in 1..Len(del) : del[j].ok => ~HasHash(upstream, del[j].hash)
         /\ r.pc = "done" =>
              \A k \in 1..Len(upstream) :
                upstream[k].hash \in Hashes(r.keys) =>
                  \E j \in 1..Len(del) :
                    del[j].hash = upstream[k].hash /\ ~del[j].ok

\* delete-all over two keys: the first delete answered failed (the 500 went
\* out with the other call pending), the other then succeeded, and only the
\* key whose delete failed is left upstream.
C13_Witness ==
  \E i \in 1..Len(reqs) :
    LET r == reqs[i]
        del == Calls(r, "delete")
    IN /\ r.route = "delete-all" /\ r.pc = "done"
       /\ Len(del) = 2
       /\ ~del[1].ok /\ del[2].ok
       /\ r.res[1].status = 500
       /\ Hashes(upstream) = {del[1].hash}

\* C14: no request is ever answered twice, and every accepted request
\* (invite, admin listing, delete-all, disable-all, registration status) is
\* answered in the end, given that every upstream call is answered and the
\* listings end with a short page.
C14_ExactlyOneResponse ==
  /\ [](\A i \in 1..Len(reqs) : Len(reqs[i].res) <= 1)
  /\ \A i \in 1..MaxReqs :
       (Len(reqs) >= i) ~> (Len(reqs) >= i /\ Len(reqs[i].res) = 1)

\* A delete-all both of whose delete calls failed and a disable-all with a
\* failed disable call, each with exactly one response.
C14_Witness ==
  /\ Len(reqs) = 2
  /\ \E i \in 1..2 :
       /\ reqs[i].route = "delete-all" /\ reqs[i].pc = "done"
       /\ Len(Calls(reqs[i], "delete")) = 2
       /\ \A j \in 1..2 : ~Calls(reqs[i], "delete")[j].ok
       /\ Len(reqs[i].res) = 1
  /\ \E i \in 1..2 :
       /\ reqs[i].route = "disable-all" /\ reqs[i].pc = "done"
       /\ ~AllOk(Calls(reqs[i], "disable"))
       /\ Len(reqs[i].res) = 1

====
